---- MODULE Spec2Model ----
(***************************************************************************)
(* State-machine model of rpc_socket.js: RpcSocket (the Endpoint), RpcStub *)
(* and the registry / marshalling code around them.  Two RpcSockets "A"    *)
(* and "B" live in one process and are the two ends of one duplex channel. *)
(***************************************************************************)
EXTENDS Integers, Sequences, FiniteSets, TLC

\* ---------------------------------------------------------------- bounds

\* call() is offered only while this._callId is below MaxCalls
MaxCalls == 2
\* longest args array handed to call()
MaxArgs == 2
\* process.pid of the process that holds both sockets
MainPid == 1
\* 1 << 24, the limit on this._stubCnt
StubLimit == 16777216

Range(f) == {f[i] : i \in DOMAIN f}

Sockets == {"A", "B"}
Peer(s) == IF s = "A" THEN "B" ELSE "A"

\* objects of the host: o1, o2 carry $rpcMethods, p1 does not
Exportable == {"o1", "o2"}
Objects == Exportable \cup {"p1"}

\* obj.$rpcMethods as the object declares it when it is created; the array
\* the property holds is a mutable object of its own, named by ArrayOf(o)
\* and, once the host has replaced it, by NewArrayOf(o)
ArrayOf(o) == <<o, "declared">>
NewArrayOf(o) == <<o, "replaced">>
ArrayIds == {ArrayOf(o) : o \in Exportable} \cup {NewArrayOf(o) : o \in Exportable}
RpcMethods(o) ==
    CASE o = "o1" -> <<"ping", "get x">>
      [] o = "o2" -> <<"ping", "set x">>
      [] OTHER -> <<>>
HasRpcMethods(o) == RpcMethods(o) # <<>>

\* ---------------------------------------------------------------- values

Prim(v) == [k |-> "prim", v |-> v]
ObjV(o) == [k |-> "obj", o |-> o]
ProxyV(s, id) == [k |-> "proxy", sock |-> s, id |-> id]
Arr(items) == [k |-> "arr", items |-> items]
\* the wire token {$rpcId: id}
Ref(id) == [k |-> "ref", id |-> id]
\* a host object whose property getter, read while it is marshalled, invokes
\* call() on the same socket; caught: the getter catches what call() throws
Reenter(c) == [k |-> "reenter", caught |-> c]
PlainData == [k |-> "plain"]

NewObjectMsg(id, methods) == [control |-> "new-object", obj |-> id, methods |-> methods]
\* isArray: Array.isArray(params), which holds of every message call() writes
CallMsg(id, obj, method, params) ==
    [control |-> "call", id |-> id, obj |-> obj, method |-> method,
     params |-> params, isArray |-> TRUE]
\* the id of a one-way call message, null, and that of a message without id
Null == -1
Missing == -2
\* a numeric id a peer chooses by hand
WireId == 99
\* a reply carries either reply (hasError FALSE) or error
ReplyMsg(id, reply) ==
    [control |-> "reply", id |-> id, hasError |-> FALSE, reply |-> reply, error |-> ""]
ErrorReplyMsgAsResult(id, error) ==
    [control |-> "reply", id |-> id, hasError |-> FALSE, reply |-> PlainData, error |-> ""]
ErrorReplyMsg(id, error) ==
    [control |-> "reply", id |-> id, hasError |-> TRUE, reply |-> PlainData, error |-> error]
\* the JavaScript value undefined
Undefined == [k |-> "undefined"]

\* ------------------------------------------------------- reference ids

\* x << 24 on a 32-bit integer: the low 8 bits of x become the top byte of a
\* signed 32-bit result, every higher bit of x is shifted out
Shl24(x) ==
    LET low == x % 256
    IN IF low >= 128 THEN (low - 256) * 16777216 ELSE low * 16777216

\* (process.pid << 24) + cnt
MakeRpcId(pid, cnt) == Shl24(pid) + cnt

\* ------------------------------------------------------------ registry
\* The operators below work on the record st of one RpcSocket's fields
\* (st.sock names it, st.pid is process.pid) together with
\*   st.free    obj.$free of every host object: the chain of closures, the
\*              outermost first; [sock, id] deletes id from that socket's
\*              _knownStubIds, HostHook is a hook the host had installed
\*   st.out     the messages this operation has written to this._socket
\*   st.minted  the ids this operation has minted
\*   st.inner   what the call()s made from inside this operation returned
\*              or threw

HostHook == [sock |-> "host", id |-> 0]
\* the objects on which the host has installed a $free of its own
HostHooked == {"o1"}

\* a make$free that overwrites the hook already on the object
MakeFreeOverwrites(free, o, sock, id) ==
    [free EXCEPT ![o] = <<[sock |-> sock, id |-> id]>>]

\* make$free(obj, knownStubIds, id)
MakeFree(free, o, sock, id) ==
    IF free[o] # <<>>
    THEN [free EXCEPT ![o] = <<[sock |-> sock, id |-> id]>> \o free[o]]
    ELSE [free EXCEPT ![o] = <<[sock |-> sock, id |-> id]>>]

\* _sendMetadata(stub)
SendMetadata(st, id, methods) ==
    IF st.inCall
    THEN [st EXCEPT !.newObjects = Append(@, NewObjectMsg(id, methods))]
    ELSE [st EXCEPT !.out = Append(@, NewObjectMsg(id, methods))]

\* an addStub that does not look the object up before minting
AddStubAlwaysMints(st, o) ==
    IF ~HasRpcMethods(o)
    THEN [st |-> st, res |-> "throw", id |-> 0, err |-> "Invalid stub object"]
    ELSE LET cnt == st.stubCnt
             s1 == [st EXCEPT !.stubCnt = cnt + 1]
         IN IF cnt >= StubLimit
            THEN [st |-> s1, res |-> "throw", id |-> 0, err |-> "Too many stubs"]
            ELSE LET rpcId == MakeRpcId(st.pid, cnt)
                     methods == st.rpcMethodsOf[o]
                     s2 == [s1 EXCEPT
                              !.free = MakeFree(s1.free, o, st.sock, rpcId),
                              !.knownStubs = (o :> rpcId) @@ @,
                              !.knownStubIds = (rpcId :> o) @@ @,
                              !.stubMethods =
                                 (rpcId :> [arr |-> methods,
                                            declared |-> st.arrays[methods]]) @@ @,
                              !.minted = Append(@, rpcId)]
                 IN [st |-> SendMetadata(s2, rpcId, st.arrays[methods]),
                     res |-> "ok", id |-> rpcId, err |-> ""]

\* addStub(obj): res "ok" with the id returned, or "throw" with err
AddStub(st, o) ==
    IF o \in DOMAIN st.knownStubs
    THEN [st |-> st, res |-> "ok", id |-> st.knownStubs[o], err |-> ""]
    ELSE IF ~HasRpcMethods(o)
    THEN [st |-> st, res |-> "throw", id |-> 0, err |-> "Invalid stub object"]
    ELSE LET cnt == st.stubCnt
             s1 == [st EXCEPT !.stubCnt = cnt + 1]
         IN IF cnt >= StubLimit
            THEN [st |-> s1, res |-> "throw", id |-> 0, err |-> "Too many stubs"]
            ELSE LET rpcId == MakeRpcId(st.pid, cnt)
                     methods == st.rpcMethodsOf[o]
                     s2 == [s1 EXCEPT
                              !.free = MakeFree(s1.free, o, st.sock, rpcId),
                              !.knownStubs = (o :> rpcId) @@ @,
                              !.knownStubIds = (rpcId :> o) @@ @,
                              !.stubMethods =
                                 (rpcId :> [arr |-> methods,
                                            declared |-> st.arrays[methods]]) @@ @,
                              !.minted = Append(@, rpcId)]
                 IN [st |-> SendMetadata(s2, rpcId, st.arrays[methods]),
                     res |-> "ok", id |-> rpcId, err |-> ""]

\* ---------------------------------------------------------- marshalling

RECURSIVE MarshalArgument(_, _)
RECURSIVE MarshalAll(_, _, _)
RECURSIVE CallOp(_, _, _, _)

\* _marshalArgument(arg): res "ok" with the wire value val, or "throw"
MarshalArgument(st, arg) ==
    CASE arg.k = "prim" -> [st |-> st, res |-> "ok", val |-> arg, err |-> ""]
      [] arg.k = "arr" ->
            LET r == MarshalAll(st, arg.items, <<>>)
            IN [st |-> r.st, res |-> r.res, val |-> Arr(r.vals), err |-> r.err]
      [] arg.k = "proxy" ->
            IF arg.id \in st.knownProxies
            THEN [st |-> st, res |-> "ok", val |-> Ref(arg.id), err |-> ""]
            ELSE [st |-> st, res |-> "throw", val |-> arg, err |-> "Invalid object"]
      [] arg.k = "obj" ->
            IF HasRpcMethods(arg.o)
            THEN LET a == AddStub(st, arg.o)
                 IN [st |-> a.st, res |-> a.res, val |-> Ref(a.id), err |-> a.err]
            ELSE [st |-> st, res |-> "ok", val |-> arg, err |-> ""]
      [] arg.k = "reenter" ->
            \* reading arg.$rpcId runs the getter, which invokes call()
            LET c == CallOp(st, 0, "ping", <<>>)
                s1 == [c.st EXCEPT !.inner =
                         Append(@, [outcome |-> c.outcome, err |-> c.err])]
            IN IF c.outcome = "threw" /\ ~arg.caught
               THEN [st |-> s1, res |-> "throw", val |-> arg, err |-> c.err]
               ELSE [st |-> s1, res |-> "ok", val |-> PlainData, err |-> ""]
      [] OTHER -> [st |-> st, res |-> "ok", val |-> arg, err |-> ""]

\* args.map(this._marshalArgument.bind(this)): left to right, a throw ends it
MarshalAll(st, items, acc) ==
    IF items = <<>>
    THEN [st |-> st, res |-> "ok", vals |-> acc, err |-> ""]
    ELSE LET r == MarshalArgument(st, Head(items))
         IN IF r.res # "ok"
            THEN [st |-> r.st, res |-> r.res, vals |-> acc, err |-> r.err]
            ELSE MarshalAll(r.st, Tail(items), Append(acc, r.val))

\* _unmarshalArgument(arg) against the registry of socket sock:
\* the host value, or Thrown when the reference is unknown
Thrown == [k |-> "thrown"]

RECURSIVE UnmarshalArgument(_, _, _, _)
RECURSIVE UnmarshalAll(_, _, _, _)
UnmarshalArgument(sock, stubIds, proxies, arg) ==
    CASE arg.k = "arr" ->
            LET items == UnmarshalAll(sock, stubIds, proxies, arg.items)
            IN IF \E i \in 1..Len(items) : items[i] = Thrown
               THEN Thrown ELSE Arr(items)
      [] arg.k = "ref" ->
            IF arg.id \in DOMAIN stubIds THEN ObjV(stubIds[arg.id])
            ELSE IF arg.id \in proxies THEN ProxyV(sock, arg.id)
            ELSE Thrown
      [] OTHER -> arg

UnmarshalAll(sock, stubIds, proxies, items) ==
    [i \in 1..Len(items) |-> UnmarshalArgument(sock, stubIds, proxies, items[i])]

\* ----------------------------------------------------------------- call

\* the states of a deferred (Q.defer()): settled at most once
Pending == [state |-> "pending", val |-> Undefined, err |-> ""]
Resolved(v) == [state |-> "resolved", val |-> v, err |-> ""]
Rejected(e) == [state |-> "rejected", val |-> Undefined, err |-> e]
\* deferred.resolve / deferred.reject: no effect once settled
Settle(f, to) == IF f.state = "pending" THEN to ELSE f

\* call(obj, method, args): outcome
\*   "threw"     an exception leaves call() (err says which)
\*   "rejected"  an already rejected promise is returned
\*   "returned"  the promise of a registered pending call is returned
CallOp(st, obj, method, args) ==
    IF st.inCall
    THEN [st |-> st, outcome |-> "threw", err |-> "Re-entrant calls are not supported"]
    ELSE IF st.ended
    THEN [st |-> st, outcome |-> "rejected", err |-> "Socket closed"]
    ELSE LET m == MarshalAll([st EXCEPT !.inCall = TRUE], args, <<>>)
         IN IF m.res # "ok"
            THEN [st |-> m.st, outcome |-> "threw", err |-> m.err]
            ELSE LET id == m.st.callId
                     s2 == [m.st EXCEPT
                              !.out = (@ \o m.st.newObjects)
                                        \o <<CallMsg(id, obj, method, m.vals)>>,
                              !.newObjects = <<>>,
                              !.inCall = FALSE,
                              !.callId = id + 1,
                              !.pendingCalls = @ \cup {id},
                              !.futures = (id :> Pending) @@ @]
                 IN [st |-> s2, outcome |-> "returned", err |-> ""]

\* ---------------------------------------------------------------- state

VARIABLES
    knownStubs,     \* this._knownStubs: object -> $rpcId of its RpcStub
    knownStubIds,   \* this._knownStubIds: rpcId -> object
    knownProxies,   \* this._knownProxies: the ids that have an RpcProxy
    pendingCalls,   \* this._pendingCalls: the call ids with a deferred
    inCall,         \* this._inCall
    newObjects,     \* this._newObjects
    callId,         \* this._callId
    ended,          \* this._ended
    stubCnt,        \* this._stubCnt
    pid,            \* process.pid of the process that holds the socket
    futures,        \* every deferred call() has made: call id -> its state
    chan,           \* messages written to this._socket, not yet delivered
    errored,        \* the socket has emitted 'error'
    dispatched,     \* inbound calls run, whose reply is not written yet
    free,           \* obj.$free of every host object
    hostFreed,      \* how often the host's own $free hook has run
    freeCalled,     \* the host has invoked obj.$free()
    objX,           \* the property x of every exportable object
    heapProxies,    \* every RpcProxy constructed so far
    arrays,         \* the contents of every $rpcMethods array
    rpcMethodsOf,   \* obj.$rpcMethods: the array the property holds now
    stubMethods,    \* RpcStub.methods of every stub: the array it holds (arr)
                    \* and what that array held when the stub was made
    announced,      \* the ids whose new-object message has been written
    escaped,        \* .done() has rethrown an exception out of _handleCall
    last            \* the last operation: which, and what it returned or threw

sockVars == <<knownStubs, knownStubIds, knownProxies, pendingCalls, inCall,
              newObjects, callId, ended, stubCnt, futures>>
listVars == <<arrays, rpcMethodsOf, stubMethods>>
vars == <<knownStubs, knownStubIds, knownProxies, pendingCalls, inCall,
          newObjects, callId, ended, stubCnt, pid, futures, chan, errored,
          dispatched, free, hostFreed, freeCalled, objX, heapProxies,
          arrays, rpcMethodsOf, stubMethods, announced, escaped, last>>

EmptyFn == [x \in {} |-> 0]

\* the fields of socket s, as the operators above read them
St(s) ==
    [sock |-> s, pid |-> pid[s],
     knownStubs |-> knownStubs[s], knownStubIds |-> knownStubIds[s],
     knownProxies |-> knownProxies[s], pendingCalls |-> pendingCalls[s],
     inCall |-> inCall[s], newObjects |-> newObjects[s], callId |-> callId[s],
     ended |-> ended[s], stubCnt |-> stubCnt[s], futures |-> futures[s],
     arrays |-> arrays, rpcMethodsOf |-> rpcMethodsOf,
     stubMethods |-> stubMethods[s],
     free |-> free, out |-> <<>>, minted |-> <<>>, inner |-> <<>>]

\* store the fields of st back into socket s; st.out goes to the channel
Commit(s, st) ==
    /\ knownStubs' = [knownStubs EXCEPT ![s] = st.knownStubs]
    /\ knownStubIds' = [knownStubIds EXCEPT ![s] = st.knownStubIds]
    /\ knownProxies' = [knownProxies EXCEPT ![s] = st.knownProxies]
    /\ pendingCalls' = [pendingCalls EXCEPT ![s] = st.pendingCalls]
    /\ inCall' = [inCall EXCEPT ![s] = st.inCall]
    /\ newObjects' = [newObjects EXCEPT ![s] = st.newObjects]
    /\ callId' = [callId EXCEPT ![s] = st.callId]
    /\ ended' = [ended EXCEPT ![s] = st.ended]
    /\ stubCnt' = [stubCnt EXCEPT ![s] = st.stubCnt]
    /\ futures' = [futures EXCEPT ![s] = st.futures]
    /\ free' = st.free
    /\ chan' = [chan EXCEPT ![s] = @ \o st.out]
    /\ announced' = [announced EXCEPT ![s] = @ \cup
          {st.out[i].obj : i \in {j \in 1..Len(st.out) :
                                    st.out[j].control = "new-object"}}]
    /\ stubMethods' = [stubMethods EXCEPT ![s] = st.stubMethods]
    /\ UNCHANGED <<pid, arrays, rpcMethodsOf>>

NoObs == [out |-> <<>>, minted |-> <<>>, inner |-> <<>>]

Last(op, s, arg, outcome, err, st, ret) ==
    [op |-> op, sock |-> s, arg |-> arg, outcome |-> outcome, err |-> err,
     inner |-> st.inner, ret |-> ret]
\* an event of the channel or of the host's garbage collection
Event == Last("event", "A", <<>>, "", "", NoObs, 0)

\* constructor(socket); objects may come with a $free hook of the host's
Init ==
    /\ knownStubs = [s \in Sockets |-> EmptyFn]
    /\ knownStubIds = [s \in Sockets |-> EmptyFn]
    /\ knownProxies = [s \in Sockets |-> {}]
    /\ pendingCalls = [s \in Sockets |-> {}]
    /\ inCall = [s \in Sockets |-> FALSE]
    /\ newObjects = [s \in Sockets |-> <<>>]
    /\ callId = [s \in Sockets |-> 0]
    /\ ended = [s \in Sockets |-> FALSE]
    /\ stubCnt = [s \in Sockets |-> 0]
    /\ pid = [s \in Sockets |-> MainPid]
    /\ futures = [s \in Sockets |-> EmptyFn]
    /\ chan = [s \in Sockets |-> <<>>]
    /\ errored = [s \in Sockets |-> FALSE]
    /\ dispatched = [s \in Sockets |-> {}]
    /\ free = [o \in Objects |-> IF o \in HostHooked THEN <<HostHook>> ELSE <<>>]
    /\ hostFreed = [o \in Objects |-> 0]
    /\ freeCalled = [o \in Objects |-> FALSE]
    /\ objX = [o \in Exportable |-> Prim(5)]
    /\ heapProxies = {}
    /\ arrays = [a \in ArrayIds |-> IF a[2] = "declared" THEN RpcMethods(a[1]) ELSE <<>>]
    /\ rpcMethodsOf = [o \in Exportable |-> ArrayOf(o)]
    /\ stubMethods = [s \in Sockets |-> EmptyFn]
    /\ announced = [s \in Sockets |-> {}]
    /\ escaped = [s \in Sockets |-> FALSE]
    /\ last = Last("init", "A", <<>>, "", "", NoObs, 0)


\* what the host may hand to call() on socket s
ArgValues ==
    {Prim(1)} \cup {ObjV(o) : o \in Objects} \cup heapProxies
       \cup {Arr(<<ObjV(o)>>) : o \in Exportable}
       \cup {Reenter(c) : c \in BOOLEAN}
\* args arrays: up to MaxArgs values; a longer one starts with host objects
ArgLists ==
    {l \in UNION {[1..n -> ArgValues] : n \in 0..MaxArgs} :
        \A i \in 1..(Len(l) - 1) : l[i].k = "obj" /\ l[i].o \in Exportable}
\* (method, args) as an RpcProxy issues them, and ping with any args
CallInputs ==
    {<<"ping", l>> : l \in ArgLists}
       \cup {<<"get x", <<>>>>, <<"set x", <<Prim(1)>>>>}

\* ------------------------------------------------------------ operations

\* the host calls socket.addStub(o)
DoAddStub(s, o) ==
    LET r == AddStub(St(s), o)
    IN /\ Commit(s, r.st)
       /\ last' = Last("addStub", s, <<o>>, r.res, r.err, r.st, r.id)
       /\ UNCHANGED <<errored, dispatched, hostFreed, freeCalled, objX, heapProxies, escaped>>

\* the host calls socket.call(target, method, args)
DoCall(s, target, method, args) ==
    /\ callId[s] < MaxCalls
    /\ LET r == CallOp(St(s), target, method, args)
       IN /\ Commit(s, r.st)
          /\ last' = Last("call", s, args, r.outcome, r.err, r.st, 0)
    /\ UNCHANGED <<errored, dispatched, hostFreed, freeCalled, objX, heapProxies, escaped>>

\* the socket emits 'error': _failAllCalls()
SocketError(s) ==
    /\ ~ended[s] /\ ~errored[s]
    /\ errored' = [errored EXCEPT ![s] = TRUE]
    /\ futures' = [futures EXCEPT ![s] =
                     [i \in DOMAIN @ |->
                        IF i \in pendingCalls[s]
                        THEN Settle(@[i], Rejected("Socket closed")) ELSE @[i]]]
    /\ pendingCalls' = [pendingCalls EXCEPT ![s] = {}]
    /\ last' = Event
    /\ UNCHANGED <<knownStubs, knownStubIds, knownProxies, inCall, newObjects,
                   callId, ended, stubCnt, pid, chan, dispatched, free, hostFreed,
                   freeCalled, objX, heapProxies,
                   listVars, announced, escaped>>

\* the socket emits 'close'
SocketClose(s) ==
    /\ ~ended[s]
    /\ ended' = [ended EXCEPT ![s] = TRUE]
    /\ last' = Event
    /\ UNCHANGED <<knownStubs, knownStubIds, knownProxies, pendingCalls, inCall,
                   newObjects, callId, stubCnt, pid, futures, chan, errored,
                   dispatched, free, hostFreed, freeCalled, objX, heapProxies,
                   listVars, announced, escaped>>

\* the host invokes o.$free(): every closure of the chain runs
Free(o) ==
    /\ free[o] # <<>> /\ ~freeCalled[o]
    /\ freeCalled' = [freeCalled EXCEPT ![o] = TRUE]
    /\ LET hooks == {free[o][i] : i \in 1..Len(free[o])}
       IN /\ knownStubIds' =
                [s \in Sockets |->
                   LET gone == {h.id : h \in {g \in hooks : g.sock = s}}
                   IN [i \in DOMAIN knownStubIds[s] \ gone |-> knownStubIds[s][i]]]
          /\ hostFreed' = [hostFreed EXCEPT ![o] =
                             IF HostHook \in hooks THEN @ + 1 ELSE @]
    /\ last' = Last("free", "A", <<o>>, "", "", NoObs, 0)
    /\ UNCHANGED <<knownStubs, knownProxies, pendingCalls, inCall, newObjects,
                   callId, ended, stubCnt, pid, futures, chan, errored, dispatched,
                   free, objX, heapProxies,
                   listVars, announced, escaped>>

\* the host invokes proxy.$free() of the proxy socket s made for id
ProxyFree(s, id) ==
    /\ ProxyV(s, id) \in heapProxies
    /\ id \in knownProxies[s]
    /\ knownProxies' = [knownProxies EXCEPT ![s] = @ \ {id}]
    /\ last' = Event
    /\ UNCHANGED <<knownStubs, knownStubIds, pendingCalls, inCall, newObjects,
                   callId, ended, stubCnt, pid, futures, chan, errored, dispatched,
                   free, hostFreed, freeCalled, objX, heapProxies,
                   listVars, announced, escaped>>

\* ------------------------------------------------------ inbound messages

\* method.substr(0,4) and method.substr(4) of the method names in use
Substr04(m) == CASE m = "get x" -> "get " [] m = "set x" -> "set " [] OTHER -> "ping"
Substr4(m) == CASE m = "get x" -> "x" [] m = "set x" -> "x" [] OTHER -> ""

\* RpcStub.prototype._validateCall: TRUE when it does not throw
ValidateCall(methods, method) == method \in Range(methods)

\* what the exported object's own method does when invoked: it returns a
\* value (a proxy among them), or throws an Error (reason TRUE), or returns a
\* promise rejected without a reason (reason FALSE: the error is undefined)
HostResults ==
    {[ok |-> TRUE, val |-> Prim(1), reason |-> TRUE],
     [ok |-> TRUE, val |-> ObjV("o2"), reason |-> TRUE],
     [ok |-> FALSE, val |-> Undefined, reason |-> TRUE],
     [ok |-> FALSE, val |-> Undefined, reason |-> FALSE]}
       \cup {[ok |-> TRUE, val |-> p, reason |-> TRUE] : p \in heapProxies}

\* RpcStub.prototype.get / set: the allow-list entry both look up
StubGetEntry(name) == "get " \o name
StubSetEntryOwn(name) == "set " \o name
StubSetEntry(name) == "get " \o name

\* the function _handleCall hands to Q.try, run on socket s for msg; hr is
\* what the object's method does if it is reached
RunCall(s, msg, hr) ==
    LET fail(e) == [ok |-> FALSE, val |-> Undefined, err |-> e, x |-> objX,
                    reason |-> TRUE]
    IN IF msg.obj \notin DOMAIN knownStubIds[s]
       THEN fail("Invalid object 0x")
       ELSE IF ~msg.isArray
       THEN fail("Malformed method call")
       ELSE LET o == knownStubIds[s][msg.obj]
                methods == arrays[stubMethods[s][knownStubs[s][o]].arr]
                unm == UnmarshalAll(s, knownStubIds[s], knownProxies[s], msg.params)
            IN IF \E i \in 1..Len(unm) : unm[i] = Thrown
               THEN fail("Invalid object")
               ELSE IF Substr04(msg.method) = "get "
               THEN IF Len(unm) # 0
                    THEN fail("Wrong number of arguments, expected 0")
                    ELSE IF ~ValidateCall(methods, StubGetEntry(Substr4(msg.method)))
                    THEN fail("Invalid method")
                    ELSE [ok |-> TRUE, val |-> objX[o], err |-> "", x |-> objX,
                          reason |-> TRUE]
               ELSE IF Substr04(msg.method) = "set "
               THEN IF Len(unm) # 1
                    THEN fail("Wrong number of arguments, expected 1")
                    ELSE IF ~ValidateCall(methods, StubSetEntry(Substr4(msg.method)))
                    THEN fail("Invalid method")
                    ELSE [ok |-> TRUE, val |-> Undefined, err |-> "",
                          x |-> [objX EXCEPT ![o] = unm[1]], reason |-> TRUE]
               ELSE IF ~ValidateCall(methods, msg.method)
                    THEN fail("Invalid method")
                    ELSE IF hr.ok
                    THEN [ok |-> TRUE, val |-> hr.val, err |-> "", x |-> objX,
                          reason |-> TRUE]
                    ELSE [ok |-> FALSE, val |-> Undefined,
                          err |-> "thrown by the method", x |-> objX,
                          reason |-> hr.reason]

\* 'data' with a new-object message: _handleMessage
DeliverNewObject(s) ==
    /\ ~ended[s] /\ chan[Peer(s)] # <<>>
    /\ Head(chan[Peer(s)]).control = "new-object"
    /\ LET msg == Head(chan[Peer(s)])
       IN IF msg.obj \in knownProxies[s]
          THEN UNCHANGED <<knownProxies, heapProxies>>
          ELSE /\ knownProxies' = [knownProxies EXCEPT ![s] = @ \cup {msg.obj}]
               /\ heapProxies' = heapProxies \cup {ProxyV(s, msg.obj)}
    /\ chan' = [chan EXCEPT ![Peer(s)] = Tail(@)]
    /\ last' = Event
    /\ UNCHANGED <<knownStubs, knownStubIds, pendingCalls, inCall, newObjects,
                   callId, ended, stubCnt, pid, futures, errored, dispatched, free,
                   hostFreed, freeCalled, objX,
                   listVars, announced, escaped>>

\* _handleCall(msg) up to the end of Q.try: a message without id is dropped
HandleCall(s, msg) ==
    IF msg.id = Missing
    THEN UNCHANGED <<dispatched, objX>>
    ELSE \E hr \in HostResults :
            LET r == RunCall(s, msg, hr)
            IN /\ dispatched' = [dispatched EXCEPT ![s] =
                     @ \cup {[id |-> msg.id, ok |-> r.ok, val |-> r.val,
                              err |-> r.err, reason |-> r.reason]}]
               /\ objX' = r.x

\* 'data' with a call message
DeliverCall(s) ==
    /\ ~ended[s] /\ chan[Peer(s)] # <<>>
    /\ Head(chan[Peer(s)]).control = "call"
    /\ HandleCall(s, Head(chan[Peer(s)]))
    /\ chan' = [chan EXCEPT ![Peer(s)] = Tail(@)]
    /\ last' = Event
    /\ UNCHANGED <<knownStubs, knownStubIds, knownProxies, pendingCalls, inCall,
                   newObjects, callId, ended, stubCnt, pid, futures, errored, free,
                   hostFreed, freeCalled, heapProxies,
                   listVars, announced, escaped>>

\* call messages a peer puts on the wire without call(): one-way (id null),
\* without id, or with params that is not an array
WireCalls(s) ==
    {[control |-> "call", id |-> id, obj |-> obj, method |-> "ping",
      params |-> <<>>, isArray |-> TRUE] :
        id \in {Null, Missing}, obj \in DOMAIN knownStubIds[Peer(s)] \cup {0}}
       \cup {[control |-> "call", id |-> Null, obj |-> obj, method |-> "set x",
              params |-> <<Prim(1)>>, isArray |-> TRUE] :
                obj \in DOMAIN knownStubIds[Peer(s)]}
       \cup {[control |-> "call", id |-> WireId, obj |-> obj, method |-> "ping",
              params |-> <<>>, isArray |-> FALSE] :
                obj \in DOMAIN knownStubIds[Peer(s)]}

\* the program at s writes such a message to its socket, when both channels
\* are empty and the peer has run every call it got
WireCall(s, msg) ==
    /\ ~ended[s] /\ dispatched[Peer(s)] = {}
    /\ chan[s] = <<>> /\ chan[Peer(s)] = <<>>
    /\ msg \in WireCalls(s)
    /\ chan' = [chan EXCEPT ![s] = Append(@, msg)]
    /\ last' = Event
    /\ UNCHANGED <<knownStubs, knownStubIds, knownProxies, pendingCalls, inCall,
                   newObjects, callId, ended, stubCnt, pid, futures, errored,
                   dispatched, free, hostFreed, freeCalled, objX, heapProxies,
                   listVars, announced, escaped>>

\* msg.id !== null in the .then and .catch callbacks of _handleCall
AnyIdHasReplySlot(id) == TRUE
HasReplySlot(id) == id # Null

\* the .then / .catch callbacks of _handleCall for the outcome d of Q.try:
\* the socket after them, and whether .done() rethrows
HandleResult(st, d) ==
    IF d.ok
    THEN IF ~HasReplySlot(d.id)
         THEN [st |-> st, escapes |-> FALSE]
         ELSE LET m == MarshalArgument(st, d.val)
              IN IF m.res = "ok"
                 THEN [st |-> [m.st EXCEPT !.out = Append(@, ReplyMsg(d.id, m.val))],
                       escapes |-> FALSE]
                 ELSE [st |-> [m.st EXCEPT
                                 !.out = Append(@, ErrorReplyMsg(d.id, m.err))],
                       escapes |-> FALSE]
    ELSE IF ~d.reason
    THEN \* error.name / error.message of undefined: a TypeError in .catch
         [st |-> st, escapes |-> TRUE]
    ELSE IF HasReplySlot(d.id)
    THEN [st |-> [st EXCEPT !.out = Append(@, ErrorReplyMsg(d.id, d.err))],
          escapes |-> FALSE]
    ELSE [st |-> st, escapes |-> FALSE]

\* _handleCall, the .then / .catch callbacks run
WriteReply(s, d) ==
    /\ d \in dispatched[s]
    /\ dispatched' = [dispatched EXCEPT ![s] = @ \ {d}]
    /\ LET r == HandleResult(St(s), d)
       IN /\ Commit(s, r.st)
          /\ escaped' = [escaped EXCEPT ![s] = @ \/ r.escapes]
    /\ last' = Event
    /\ UNCHANGED <<errored, hostFreed, freeCalled, objX, heapProxies>>

\* a _handleReply that settles the oldest pending call, whatever msg.id is
HandleReplyInOrder(st, msg) ==
    IF msg.id \in {Null, Missing} \/ st.pendingCalls = {}
    THEN st
    ELSE LET id == CHOOSE i \in st.pendingCalls : \A j \in st.pendingCalls : i <= j
             v == UnmarshalArgument(st.sock, st.knownStubIds, st.knownProxies,
                                    msg.reply)
         IN [st EXCEPT
               !.pendingCalls = @ \ {id},
               !.futures[id] =
                  Settle(@, IF msg.hasError /\ msg.error # ""
                            THEN Rejected(msg.error)
                            ELSE IF v = Thrown THEN Rejected("Invalid object")
                            ELSE Resolved(v))]

\* _handleReply(msg)
HandleReply(st, msg) ==
    IF msg.id \in {Null, Missing} \/ msg.id \notin st.pendingCalls
    THEN st
    ELSE LET v == UnmarshalArgument(st.sock, st.knownStubIds, st.knownProxies,
                                    msg.reply)
         IN [st EXCEPT
               !.pendingCalls = @ \ {msg.id},
               !.futures[msg.id] =
                  Settle(@, IF msg.hasError /\ msg.error # ""
                            THEN Rejected(msg.error)
                            ELSE IF v = Thrown THEN Rejected("Invalid object")
                            ELSE Resolved(v))]

\* 'data' with a reply message
DeliverReply(s) ==
    /\ ~ended[s] /\ chan[Peer(s)] # <<>>
    /\ Head(chan[Peer(s)]).control = "reply"
    /\ LET st == HandleReply(St(s), Head(chan[Peer(s)]))
       IN /\ pendingCalls' = [pendingCalls EXCEPT ![s] = st.pendingCalls]
          /\ futures' = [futures EXCEPT ![s] = st.futures]
    /\ chan' = [chan EXCEPT ![Peer(s)] = Tail(@)]
    /\ last' = Event
    /\ UNCHANGED <<knownStubs, knownStubIds, knownProxies, inCall, newObjects,
                   callId, ended, stubCnt, pid, errored, dispatched, free, hostFreed,
                   freeCalled, objX, heapProxies,
                   listVars, announced, escaped>>

\* ------------------------------------------------- the host's allow-lists

\* the host changes the array obj.$rpcMethods holds, in place: it pushes m,
\* or splices m out if the array has it
MutateMethods(o, m) ==
    /\ arrays' = [arrays EXCEPT ![rpcMethodsOf[o]] =
                    IF m \in Range(@)
                    THEN SelectSeq(@, LAMBDA e : e # m)
                    ELSE Append(@, m)]
    /\ last' = Event
    /\ UNCHANGED <<knownStubs, knownStubIds, knownProxies, pendingCalls, inCall,
                   newObjects, callId, ended, stubCnt, pid, futures, chan, errored,
                   dispatched, free, hostFreed, freeCalled, objX, heapProxies,
                   rpcMethodsOf, stubMethods, announced, escaped>>

\* the host assigns a new array to obj.$rpcMethods
ReplaceMethods(o) ==
    /\ rpcMethodsOf[o] = ArrayOf(o)
    /\ rpcMethodsOf' = [rpcMethodsOf EXCEPT ![o] = NewArrayOf(o)]
    /\ arrays' = [arrays EXCEPT ![NewArrayOf(o)] = <<"ping">>]
    /\ last' = Event
    /\ UNCHANGED <<knownStubs, knownStubIds, knownProxies, pendingCalls, inCall,
                   newObjects, callId, ended, stubCnt, pid, futures, chan, errored,
                   dispatched, free, hostFreed, freeCalled, objX, heapProxies,
                   stubMethods, announced, escaped>>

\* ---------------------------------------------------------- specification

Next ==
    \/ \E s \in Sockets, o \in Objects : DoAddStub(s, o)
    \/ \E s \in Sockets : \E t \in knownProxies[s] \cup {0} :
          \E in \in CallInputs : DoCall(s, t, in[1], in[2])
    \/ \E s \in Sockets : SocketError(s)
    \/ \E s \in Sockets : SocketClose(s)
    \/ \E o \in Objects : Free(o)
    \/ \E s \in Sockets : \E id \in knownProxies[s] : ProxyFree(s, id)
    \/ \E s \in Sockets : DeliverNewObject(s)
    \/ \E s \in Sockets : DeliverCall(s)
    \/ \E s \in Sockets : \E d \in dispatched[s] : WriteReply(s, d)
    \/ \E s \in Sockets : DeliverReply(s)
    \/ \E s \in Sockets : \E msg \in WireCalls(s) : WireCall(s, msg)
    \/ \E o \in Exportable : MutateMethods(o, "get x")
    \/ \E o \in Exportable : ReplaceMethods(o)

Spec == Init /\ [][Next]_vars

\* The specifications below restrict the host and the channel to one kind of
\* activity each (every step of theirs is a step of Next), so that each part
\* of the state space is searched to the end.

\* args arrays made of exportable host objects only
ObjectArgs == UNION {[1..n -> {ObjV(o) : o \in Exportable}] : n \in 0..MaxArgs}

\* Exports and disposal: both hosts export, explicitly and as arguments of
\* A's calls, and dispose of exported objects.
NextExport ==
    \/ \E s \in Sockets, o \in Objects : DoAddStub(s, o)
    \/ \E args \in ObjectArgs : DoCall("A", 0, "ping", args)
    \/ \E o \in Objects : Free(o)

SpecExport == Init /\ [][NextExport]_vars

\* Call construction: A's host calls with arguments of every kind, after
\* exports and announcements have given both sockets stubs and proxies.
NextCall ==
    \/ \E s \in Sockets : DoAddStub(s, "o1")
    \/ \E s \in Sockets : DeliverNewObject(s)
    \/ \E s \in Sockets : \E id \in knownProxies[s] : ProxyFree(s, id)
    \/ \E t \in knownProxies["A"] \cup {0} :
          \E in \in CallInputs : DoCall("A", t, in[1], in[2])

SpecCall == Init /\ [][NextCall]_vars

\* (method, args) of the calls made while the socket may fail
CloseInputs ==
    {<<"ping", <<>>>>, <<"ping", <<ObjV("o1")>>>>}
       \cup {<<"ping", <<p>>>> : p \in heapProxies}

\* Calls and their replies while A's socket may fail and close.
NextClose ==
    \/ \E in \in CloseInputs : DoCall("A", 0, in[1], in[2])
    \/ SocketError("A")
    \/ SocketClose("A")
    \/ \E s \in Sockets : DeliverNewObject(s)
    \/ \E s \in Sockets : DeliverCall(s)
    \/ \E s \in Sockets : \E d \in dispatched[s] : WriteReply(s, d)
    \/ \E s \in Sockets : DeliverReply(s)

SpecClose == Init /\ [][NextClose]_vars

\* exports by both sockets and disposals by the host, without calls
NextFree ==
    \/ \E s \in Sockets, o \in Objects : DoAddStub(s, o)
    \/ \E o \in Objects : Free(o)

SpecFree == Init /\ [][NextFree]_vars

\* Inbound calls: A exports o1 and disposes of it, B calls ping on what it
\* has a proxy for, or on id 0, through call() or by hand; A runs the calls
\* and replies, B takes the replies.
NextInbound ==
    \/ DoAddStub("A", "o1")
    \/ Free("o1")
    \/ DeliverNewObject("B")
    \/ \E t \in knownProxies["B"] \cup {0} : DoCall("B", t, "ping", <<>>)
    \/ \E msg \in WireCalls("B") : WireCall("B", msg)
    \/ DeliverCall("A")
    \/ \E d \in dispatched["A"] : WriteReply("A", d)
    \/ DeliverReply("B")

SpecInbound == Init /\ [][NextInbound]_vars

\* the property accesses B's host and B's proxies make with call()
PropertyInputs ==
    {<<"get x", <<>>>>, <<"get x", <<Prim(1)>>>>,
     <<"set x", <<Prim(1)>>>>, <<"set x", <<>>>>}

\* Property access: A exports o1 (which lists "get x") and o2 (which lists
\* "set x"), B reads and writes x of both.
NextProperty ==
    \/ \E o \in Exportable : DoAddStub("A", o)
    \/ DeliverNewObject("B")
    \/ \E t \in knownProxies["B"] :
          \E in \in PropertyInputs : DoCall("B", t, in[1], in[2])
    \/ DeliverCall("A")
    \/ \E d \in dispatched["A"] : WriteReply("A", d)
    \/ DeliverReply("B")

SpecProperty == Init /\ [][NextProperty]_vars

\* Replies: A calls ping on B's object or on id 0, several calls at a time;
\* B runs them and replies in any order; A takes the replies, or its socket
\* fails.
NextReplies ==
    \/ DoAddStub("B", "o1")
    \/ DeliverNewObject("A")
    \/ \E t \in knownProxies["A"] \cup {0} : DoCall("A", t, "ping", <<>>)
    \/ DeliverCall("B")
    \/ \E d \in dispatched["B"] : WriteReply("B", d)
    \/ DeliverReply("A")
    \/ SocketError("A")

SpecReplies == Init /\ [][NextReplies]_vars

\* Allow-lists: the hosts export o2 and change its $rpcMethods, in place or
\* by assigning a new array.
NextLists ==
    \/ \E s \in Sockets : DoAddStub(s, "o2")
    \/ MutateMethods("o2", "get x")
    \/ ReplaceMethods("o2")

SpecLists == Init /\ [][NextLists]_vars

\* args that export o2, with or without a proxy after it
AnnounceInputs ==
    {<<ObjV("o2")>>} \cup {<<ObjV("o2"), p>> : p \in heapProxies}
\* the calls of this scenario: A's with such args, B's on its proxies
AnnounceCalls(s) ==
    IF s = "A"
    THEN {<<0, args>> : args \in AnnounceInputs}
    ELSE {<<t, <<>>>> : t \in knownProxies[s]}

\* Announcements: A exports by addStub, by the args of its calls (some of
\* which fail in marshalling) and by the results of the calls B makes.
NextAnnounce ==
    \/ \E o \in Exportable : DoAddStub("A", o)
    \/ DeliverNewObject("B")
    \/ \E s \in Sockets : \E c \in AnnounceCalls(s) : DoCall(s, c[1], "ping", c[2])
    \/ DeliverCall("A")
    \/ \E d \in dispatched["A"] : WriteReply("A", d)

SpecAnnounce == Init /\ [][NextAnnounce]_vars

\* Reference resolution: A passes its objects to B in calls, B imports them,
\* runs the calls and replies, and B's host disposes of proxies.
NextResolve ==
    \/ \E o \in Exportable : DoAddStub("A", o)
    \/ \E o \in Exportable : DoCall("A", 0, "ping", <<ObjV(o)>>)
    \/ DeliverNewObject("B")
    \/ DeliverCall("B")
    \/ \E id \in knownProxies["B"] : ProxyFree("B", id)
    \/ \E d \in dispatched["B"] : WriteReply("B", d)
    \/ DeliverReply("A")

SpecResolve == Init /\ [][NextResolve]_vars

\* Reference ids across processes: the two sockets live in processes of any
\* pids, their export counters anywhere below the limit, and each host
\* exports an object of its own.
Pids == {1, 2, 129, 257}
InitIds ==
    /\ knownStubs = [s \in Sockets |-> EmptyFn]
    /\ knownStubIds = [s \in Sockets |-> EmptyFn]
    /\ knownProxies = [s \in Sockets |-> {}]
    /\ pendingCalls = [s \in Sockets |-> {}]
    /\ inCall = [s \in Sockets |-> FALSE]
    /\ newObjects = [s \in Sockets |-> <<>>]
    /\ callId = [s \in Sockets |-> 0]
    /\ ended = [s \in Sockets |-> FALSE]
    /\ stubCnt \in [Sockets -> {0, 1, StubLimit - 2, StubLimit - 1}]
    /\ pid \in [Sockets -> Pids]
    /\ futures = [s \in Sockets |-> EmptyFn]
    /\ chan = [s \in Sockets |-> <<>>]
    /\ errored = [s \in Sockets |-> FALSE]
    /\ dispatched = [s \in Sockets |-> {}]
    /\ free = [o \in Objects |-> IF o \in HostHooked THEN <<HostHook>> ELSE <<>>]
    /\ hostFreed = [o \in Objects |-> 0]
    /\ freeCalled = [o \in Objects |-> FALSE]
    /\ objX = [o \in Exportable |-> Prim(5)]
    /\ heapProxies = {}
    /\ arrays = [a \in ArrayIds |-> IF a[2] = "declared" THEN RpcMethods(a[1]) ELSE <<>>]
    /\ rpcMethodsOf = [o \in Exportable |-> ArrayOf(o)]
    /\ stubMethods = [s \in Sockets |-> EmptyFn]
    /\ announced = [s \in Sockets |-> {}]
    /\ escaped = [s \in Sockets |-> FALSE]
    /\ last = Last("init", "A", <<>>, "", "", NoObs, 0)

NextIds ==
    \/ DoAddStub("A", "o1")
    \/ DoAddStub("B", "o2")

SpecIds == InitIds /\ [][NextIds]_vars

\* ================================================================ claims

\* the messages socket s writes in the step
Written(s) == SubSeq(chan'[s], Len(chan[s]) + 1, Len(chan'[s]))
\* the step is a call() on socket s
CallStep(s) == last'.op = "call" /\ last'.sock = s

\* C1: when the socket's close event is delivered, every call pending at that
\* moment is rejected with the closed-socket error and the pending-call table
\* is empty, whether or not an error event came first.
C1_CloseRejectsPending ==
    [][\A s \in Sockets :
         (~ended[s] /\ ended'[s]) =>
            /\ pendingCalls'[s] = {}
            /\ \A i \in pendingCalls[s] : futures'[s][i] = Rejected("Socket closed")]_vars

\* C2: once the socket has closed, every call() returns an already rejected
\* promise and changes nothing else: no message is written, no pending entry
\* is added, the call-id counter stays and nothing is exported.
C2_CallAfterCloseRejects ==
    [][\A s \in Sockets :
         (ended[s] /\ CallStep(s)) =>
            /\ last'.outcome = "rejected"
            /\ Written(s) = <<>>
            /\ pendingCalls'[s] = pendingCalls[s]
            /\ callId'[s] = callId[s]
            /\ stubCnt'[s] = stubCnt[s]
            /\ knownStubs'[s] = knownStubs[s]
            /\ knownStubIds'[s] = knownStubIds[s]
            /\ newObjects'[s] = newObjects[s]]_vars

\* C7: ids minted by addStub are unique: distinct objects of one socket get
\* distinct ids, and sockets in processes of different pids never mint the
\* same id.
C7_IdsNeverCollide ==
    /\ \A s \in Sockets : \A a, b \in DOMAIN knownStubs[s] :
          a # b => knownStubs[s][a] # knownStubs[s][b]
    /\ \A s1, s2 \in Sockets :
          pid[s1] # pid[s2] => Range(knownStubs[s1]) \cap Range(knownStubs[s2]) = {}

\* the new-object messages among the messages w
NewObjectsIn(w) == SelectSeq(w, LAMBDA msg : msg.control = "new-object")
CallsIn(w) == SelectSeq(w, LAMBDA msg : msg.control = "call")
\* call() on socket s gets as far as marshalling its arguments
Marshals(s) == CallStep(s) /\ ~inCall[s] /\ ~ended[s]
\* ... and makes no call() from inside the marshalling
MarshalsPlainly(s) == Marshals(s) /\ last'.inner = <<>>

\* C3: a call() whose marshalling exports N objects not exported before
\* writes exactly N new-object messages, in the order the ids were minted,
\* and then its own call message; nothing else is written in between.
C3_AnnouncementsBeforeCall ==
    [][\A s \in Sockets :
         MarshalsPlainly(s) =>
            LET w == Written(s)
                n == stubCnt'[s] - stubCnt[s]
            IN /\ Len(NewObjectsIn(w)) = n
               /\ Len(w) >= n
               /\ \A i \in 1..n :
                     /\ w[i].control = "new-object"
                     /\ w[i].obj = MakeRpcId(pid[s], stubCnt[s] + i - 1)
               /\ Len(w) <= n + 1
               /\ Len(w) = n + 1 =>
                     w[n + 1].control = "call" /\ w[n + 1].id = callId[s]
               /\ last'.outcome = "returned" => Len(w) = n + 1]_vars

\* C4: a call() invoked from inside the marshalling of another call() on the
\* same socket fails with the re-entrancy error, and the outer call is not
\* affected: it flushes its announcements, registers its pending entry,
\* writes its call message and clears the guard.
C4_ReentrantCallHarmless ==
    [][\A s \in Sockets :
         (Marshals(s) /\ last'.inner # <<>>) =>
            /\ \A i \in 1..Len(last'.inner) :
                  last'.inner[i] =
                     [outcome |-> "threw", err |-> "Re-entrant calls are not supported"]
            /\ last'.outcome = "returned"
            /\ inCall'[s] = FALSE
            /\ newObjects'[s] = <<>>
            /\ callId'[s] = callId[s] + 1
            /\ pendingCalls'[s] = pendingCalls[s] \cup {callId[s]}
            /\ Len(CallsIn(Written(s))) = 1
            /\ Written(s)[Len(Written(s))].control = "call"]_vars

\* C5: when marshalling an argument fails, call() returns a rejected promise
\* (the error takes no other path), writes no call message and registers no
\* pending entry.
C5_MarshalFailureRejects ==
    [][\A s \in Sockets :
         (MarshalsPlainly(s)
            /\ MarshalAll([St(s) EXCEPT !.inCall = TRUE], last'.arg, <<>>).res = "throw") =>
            /\ last'.outcome = "rejected"
            /\ CallsIn(Written(s)) = <<>>
            /\ pendingCalls'[s] = pendingCalls[s]]_vars

\* an explicit addStub(o) by socket s
AddStubStep(s, o) ==
    last'.op = "addStub" /\ last'.sock = s /\ last'.arg = <<o>>
\* the objects among args that socket s has not exported yet
FreshIn(s, args) ==
    {o \in Exportable : ObjV(o) \in Range(args) /\ o \notin DOMAIN knownStubs[s]}

\* C6: exporting an object a second time on one socket, by addStub or by
\* passing it as an argument, yields the id of the first export, leaves the
\* export counter and the registries as they are, and writes or queues no
\* further new-object message; a call mints one id and one announcement
\* per distinct object not exported before, however often it is passed.
C6_ExportIdempotent ==
    [][\A s \in Sockets :
         /\ \A o \in Exportable :
               (AddStubStep(s, o) /\ o \in DOMAIN knownStubs[s]) =>
                  /\ last'.outcome = "ok"
                  /\ last'.ret = knownStubs[s][o]
                  /\ stubCnt'[s] = stubCnt[s]
                  /\ knownStubs'[s] = knownStubs[s]
                  /\ knownStubIds'[s] = knownStubIds[s]
                  /\ Written(s) = <<>>
                  /\ newObjects'[s] = newObjects[s]
         /\ (Marshals(s) /\ last'.outcome = "returned") =>
               LET w == Written(s)
                   args == last'.arg
                   params == w[Len(w)].params
               IN /\ stubCnt'[s] - stubCnt[s] = Cardinality(FreshIn(s, args))
                  /\ Len(NewObjectsIn(w)) = Cardinality(FreshIn(s, args))
                  /\ Cardinality(DOMAIN knownStubIds'[s]) =
                        Cardinality(DOMAIN knownStubIds[s])
                           + Cardinality(FreshIn(s, args))
                  /\ newObjects'[s] = <<>>
                  /\ \A i \in 1..Len(args) :
                        /\ \A o \in DOMAIN knownStubs[s] :
                              args[i] = ObjV(o) =>
                                 params[i] = Ref(knownStubs[s][o])
                        /\ \A j \in 1..Len(args) :
                              (args[i].k = "obj" /\ args[i] = args[j]) =>
                                 params[i] = params[j]]_vars

\* C6 witness: socket A exported o1 by passing it to a call, and a later
\* addStub(o1) returned the id that call sent, with one id minted and one
\* announcement written in all.
C6_Witness ==
    /\ last.op = "addStub" /\ last.sock = "A" /\ last.arg = <<"o1">>
    /\ last.outcome = "ok"
    /\ stubCnt["A"] = 1
    /\ Len(NewObjectsIn(chan["A"])) = 1
    /\ \E i \in 1..Len(chan["A"]) :
          /\ chan["A"][i].control = "call"
          /\ chan["A"][i].params = <<Ref(last.ret)>>

\* the values socket s can marshal without exporting anything new
KnownRefs(s) ==
    {ProxyV(s, id) : id \in knownProxies[s]}
       \cup {ObjV(o) : o \in {x \in DOMAIN knownStubs[s] : ~freeCalled[x]}}
KnownValues(s) ==
    LET base == {Prim(1)} \cup KnownRefs(s)
    IN base \cup {Arr(<<>>)} \cup {Arr(<<b>>) : b \in base}
                \cup {Arr(<<Prim(1), b>>) : b \in base}

\* C8: on every socket, in every reachable state, marshalling a value built
\* from primitives, arrays, the socket's imported proxies and its exported
\* objects, and unmarshalling the result on that socket, gives the value back.
C8_RoundTrip ==
    \A s \in Sockets : \A v \in KnownValues(s) :
       LET m == MarshalArgument(St(s), v)
       IN /\ m.res = "ok"
          /\ UnmarshalArgument(s, knownStubIds[s], knownProxies[s], m.val) = v

\* the host invokes o.$free()
FreeStep(o) == ~freeCalled[o] /\ freeCalled'[o]

\* C9: when o.$free() is invoked, every socket that exported o drops o's id
\* from knownStubIds and o from knownStubs, and an addStub(o) after the
\* disposal does not answer with the disposed id.
C9_DisposalDestroysStub ==
    [][\A o \in Exportable : \A s \in Sockets :
         /\ (FreeStep(o) /\ o \in DOMAIN knownStubs[s]) =>
               /\ knownStubs[s][o] \notin DOMAIN knownStubIds'[s]
               /\ o \notin DOMAIN knownStubs'[s]
         /\ (AddStubStep(s, o) /\ freeCalled[o] /\ o \in DOMAIN knownStubs[s]
                /\ knownStubs[s][o] \notin DOMAIN knownStubIds[s]) =>
               ~(last'.outcome = "ok" /\ last'.ret = knownStubs[s][o])]_vars

\* C10: when o.$free() is invoked once, the id of o leaves knownStubIds of
\* every socket that exported o, and a $free the host had put on o before
\* the first export runs as well.
C10_AllExportersNotified ==
    [][\A o \in Exportable :
         FreeStep(o) =>
            /\ \A s \in Sockets :
                  o \in DOMAIN knownStubs[s] =>
                     knownStubs[s][o] \notin DOMAIN knownStubIds'[s]
            /\ o \in HostHooked => hostFreed'[o] = hostFreed[o] + 1
            /\ o \notin HostHooked => hostFreed'[o] = hostFreed[o]]_vars

\* C10 witness: o1, which carried a $free of the host, was exported by A
\* and by B and then disposed once; both sockets dropped its id and the
\* host's $free ran once.
C10_Witness ==
    /\ last.op = "free" /\ last.arg = <<"o1">>
    /\ \A s \in Sockets :
          /\ "o1" \in DOMAIN knownStubs[s]
          /\ knownStubs[s]["o1"] \notin DOMAIN knownStubIds[s]
    /\ hostFreed["o1"] = 1

\* socket s takes the call (the reply) message at the head of its channel
InboundCall(s) ==
    /\ chan[Peer(s)] # <<>> /\ Head(chan[Peer(s)]).control = "call"
    /\ chan'[Peer(s)] = Tail(chan[Peer(s)])
InboundReply(s) ==
    /\ chan[Peer(s)] # <<>> /\ Head(chan[Peer(s)]).control = "reply"
    /\ chan'[Peer(s)] = Tail(chan[Peer(s)])
\* the callbacks of the inbound call with outcome d run on socket s
Completes(s, d) == d \in dispatched[s] /\ dispatched'[s] = dispatched[s] \ {d}

\* C11: an inbound call with an id that targets a reference id absent from
\* knownStubIds touches no object and fails with "Invalid object"; the
\* callbacks of such a call write one reply with that text as its error; and
\* a reply with an error rejects the pending call of its id with that text.
C11_UnknownTargetRejected ==
    [][\A s \in Sockets :
         /\ (InboundCall(s)
               /\ Head(chan[Peer(s)]).id \notin {Null, Missing}
               /\ Head(chan[Peer(s)]).obj \notin DOMAIN knownStubIds[s]) =>
              /\ objX' = objX
              /\ dispatched'[s] = dispatched[s] \cup
                    {[id |-> Head(chan[Peer(s)]).id, ok |-> FALSE,
                      val |-> Undefined, err |-> "Invalid object 0x",
                      reason |-> TRUE]}
         /\ \A d \in dispatched[s] :
              (Completes(s, d) /\ ~d.ok /\ d.err = "Invalid object 0x"
                 /\ d.id # Null) =>
                 /\ Len(Written(s)) = 1
                 /\ Written(s)[1].control = "reply"
                 /\ Written(s)[1].id = d.id
                 /\ Written(s)[1].hasError
                 /\ Written(s)[1].error = "Invalid object 0x"
         /\ (InboundReply(s) /\ Head(chan[Peer(s)]).hasError
               /\ Head(chan[Peer(s)]).id \in pendingCalls[s]) =>
              /\ futures'[s][Head(chan[Peer(s)]).id].state = "rejected"
              /\ futures'[s][Head(chan[Peer(s)]).id].err =
                    Head(chan[Peer(s)]).error
              /\ Head(chan[Peer(s)]).id \notin pendingCalls'[s]]_vars

\* C11 witness: o1 was exported by A, announced to B and disposed, and both
\* calls B made (to ids that A does not export) were rejected with the text
\* of A's error replies.
C11_Witness ==
    /\ freeCalled["o1"] /\ knownProxies["B"] # {}
    /\ knownStubIds["A"] = EmptyFn
    /\ callId["B"] = MaxCalls /\ pendingCalls["B"] = {}
    /\ \A id \in DOMAIN futures["B"] : futures["B"][id] = Rejected("Invalid object 0x")

\* the methods the stub of socket s for id permits now
Permits(s, id) == Range(arrays[stubMethods[s][id].arr])

\* C12: the callbacks of an inbound call whose id is null write nothing,
\* whether the call returned or threw; such a call is still run when its
\* target is exported and its method is permitted, and a permitted "set x"
\* with one param sets x of the target.
C12_OneWayCallsNeverReply ==
    [][\A s \in Sockets :
         /\ \A d \in dispatched[s] :
              (Completes(s, d) /\ d.id = Null) => Written(s) = <<>>
         /\ \A i \in 1..Len(chan'[s]) :
              chan'[s][i].control = "reply" => chan'[s][i].id # Null
         /\ (InboundCall(s) /\ Head(chan[Peer(s)]).id = Null
               /\ Head(chan[Peer(s)]).obj \in DOMAIN knownStubIds[s]) =>
              LET msg == Head(chan[Peer(s)])
                  o == knownStubIds[s][msg.obj]
              IN /\ (msg.method = "ping" /\ "ping" \in Permits(s, msg.obj)) =>
                       \E d \in dispatched'[s] :
                          /\ d.id = Null
                          /\ d.err \in {"", "thrown by the method"}
                 /\ (msg.method = "set x" /\ "get x" \in Permits(s, msg.obj)) =>
                       /\ objX'[o] = msg.params[1]
                       /\ \E d \in dispatched'[s] : d.id = Null /\ d.ok]_vars

\* C12 witness: B has made no call() and the callbacks of every call A took
\* have run, yet x of o1 holds the value of a one-way "set x", and nothing
\* is on A's wire.
C12_Witness ==
    /\ callId["B"] = 0 /\ dispatched["A"] = {}
    /\ objX["o1"] = Prim(1) /\ ~escaped["A"]
    /\ knownProxies["B"] # {} /\ chan["A"] = <<>>

\* the outcome the inbound call taken in this step leaves for its callbacks
Outcome(s) ==
    CHOOSE d \in dispatched'[s] : d.id = Head(chan[Peer(s)]).id

\* C13: for an inbound call with an id on an exported object o, "get x"
\* with no params succeeds with x of o, and "set x" with one param sets x of
\* o to it, exactly when the stub permits "get x" (an entry "set x" counts
\* for nothing); a denied access and one with a wrong number of params fail
\* and leave every object as it is, and their callbacks write an error reply.
C13_PropertyAccessJoint ==
    [][\A s \in Sockets :
         /\ (InboundCall(s)
               /\ Head(chan[Peer(s)]).id \notin {Null, Missing}
               /\ Head(chan[Peer(s)]).isArray
               /\ Head(chan[Peer(s)]).obj \in DOMAIN knownStubIds[s]) =>
              LET msg == Head(chan[Peer(s)])
                  o == knownStubIds[s][msg.obj]
                  allowed == "get x" \in Permits(s, msg.obj)
                  d == Outcome(s)
              IN /\ dispatched'[s] = dispatched[s] \cup {d}
                 /\ (msg.method = "get x" /\ Len(msg.params) = 0) =>
                       /\ objX' = objX
                       /\ d.ok <=> allowed
                       /\ d.ok => d.val = objX[o]
                       /\ ~d.ok => d.err = "Invalid method"
                 /\ (msg.method = "set x" /\ Len(msg.params) = 1) =>
                       /\ d.ok <=> allowed
                       /\ d.ok => objX' = [objX EXCEPT ![o] = msg.params[1]]
                       /\ ~d.ok => objX' = objX /\ d.err = "Invalid method"
                 /\ (msg.method = "get x" /\ Len(msg.params) # 0) =>
                       /\ objX' = objX /\ ~d.ok
                       /\ d.err = "Wrong number of arguments, expected 0"
                 /\ (msg.method = "set x" /\ Len(msg.params) # 1) =>
                       /\ objX' = objX /\ ~d.ok
                       /\ d.err = "Wrong number of arguments, expected 1"
         /\ \A d \in dispatched[s] :
              (Completes(s, d) /\ ~d.ok /\ d.id # Null /\ d.reason) =>
                 /\ Len(Written(s)) = 1
                 /\ Written(s)[1].control = "reply"
                 /\ Written(s)[1].id = d.id
                 /\ Written(s)[1].hasError
                 /\ Written(s)[1].error = d.err]_vars

\* C13 witness: B wrote x of o1 (whose list has "get x") and was answered,
\* then wrote or read x of o2 (whose list has "set x" only) and was refused;
\* x of o1 has the new value and x of o2 the old one.
C13_Witness ==
    /\ DOMAIN futures["B"] = {0, 1}
    /\ futures["B"][0] = Resolved(Undefined)
    /\ futures["B"][1] = Rejected("Invalid method")
    /\ objX["o1"] = Prim(1) /\ objX["o2"] = Prim(5)
    /\ "set x" \in Permits("A", knownStubs["A"]["o2"])

\* C14: call() takes an id no outstanding or earlier call has, so the call
\* messages on a channel carry distinct ids; a settled future never changes;
\* a future changes only when the reply of its own id is taken or when the
\* socket fails and rejects it with "Socket closed"; and taking a reply
\* removes no pending entry but that of the reply's id.
C14_RepliesMatchedById ==
    [][\A s \in Sockets :
         /\ (CallStep(s) /\ last'.outcome = "returned") =>
              /\ callId[s] \notin DOMAIN futures[s]
              /\ pendingCalls'[s] = pendingCalls[s] \cup {callId[s]}
              /\ Written(s)[Len(Written(s))].id = callId[s]
         /\ \A i, j \in 1..Len(chan'[s]) :
              (i # j /\ chan'[s][i].control = "call"
                 /\ chan'[s][j].control = "call") =>
                 chan'[s][i].id # chan'[s][j].id
         /\ \A id \in pendingCalls[s] : futures[s][id] = Pending
         /\ \A id \in DOMAIN futures[s] :
              /\ futures[s][id] # Pending => futures'[s][id] = futures[s][id]
              /\ futures'[s][id] # futures[s][id] =>
                    \/ InboundReply(s) /\ Head(chan[Peer(s)]).id = id
                    \/ /\ ~errored[s] /\ errored'[s]
                       /\ futures'[s][id] = Rejected("Socket closed")
         /\ InboundReply(s) =>
              pendingCalls'[s] = pendingCalls[s] \ {Head(chan[Peer(s)]).id}]_vars

\* C14 witness: A had two calls outstanding and the reply of the second
\* came first: call 1 is resolved while call 0 is still pending.
C14_Witness ==
    /\ ~errored["A"]
    /\ pendingCalls["A"] = {0}
    /\ DOMAIN futures["A"] = {0, 1}
    /\ futures["A"][0] = Pending
    /\ futures["A"][1].state = "resolved"

RepliesIn(w) == SelectSeq(w, LAMBDA msg : msg.control = "reply")

\* C15: every inbound call message with an id other than null leaves one
\* outcome for its callbacks, and when they run they write exactly one
\* reply, with the id of the call: the marshalled result if the call
\* returned and its result marshals, an error otherwise (target not
\* exported, params not an array, method not permitted, the method threw,
\* the result does not marshal); and nothing is rethrown out of them.
C15_EveryCallAnswered ==
    [][\A s \in Sockets :
         /\ (InboundCall(s) /\ Head(chan[Peer(s)]).id \notin {Null, Missing}) =>
              \E d \in dispatched'[s] :
                 /\ d.id = Head(chan[Peer(s)]).id
                 /\ d \notin dispatched[s]
                 /\ dispatched'[s] = dispatched[s] \cup {d}
         /\ \A d \in dispatched[s] :
              (Completes(s, d) /\ d.id # Null) =>
                 LET w == Written(s)
                     m == MarshalArgument(St(s), d.val)
                 IN /\ escaped'[s] = escaped[s]
                    /\ Len(RepliesIn(w)) = 1
                    /\ w[Len(w)].control = "reply"
                    /\ w[Len(w)].id = d.id
                    /\ (d.ok /\ m.res = "ok") =>
                          ~w[Len(w)].hasError /\ w[Len(w)].reply = m.val
                    /\ (~d.ok \/ m.res # "ok") =>
                          w[Len(w)].hasError /\ w[Len(w)].error # ""]_vars

\* the proxies among args and among the items of the arrays in args
ProxiesIn(args) ==
    {args[i] : i \in {j \in 1..Len(args) : args[j].k = "proxy"}}
       \cup UNION {{args[i].items[n] :
                      n \in {q \in 1..Len(args[i].items) :
                               args[i].items[q].k = "proxy"}} :
                   i \in {j \in 1..Len(args) : args[j].k = "arr"}}

\* C16: when call() on socket s is given a proxy that another socket made,
\* or one of its own whose id has left knownProxies, marshalling throws and
\* no call message is written.
C16_OnlyImportedProxiesMarshal ==
    [][\A s \in Sockets :
         Marshals(s) =>
            \A p \in ProxiesIn(last'.arg) :
               (p.sock # s \/ p.id \notin knownProxies[s]) =>
                  /\ last'.outcome = "threw"
                  /\ CallsIn(Written(s)) = <<>>]_vars

\* C17: once a stub exists, the methods it permits are those its object
\* listed when it was exported, whatever the host does to the object's
\* $rpcMethods afterwards.
C17_AllowListFixedAtExport ==
    [][\A s \in Sockets : \A id \in DOMAIN stubMethods[s] :
         /\ Range(arrays'[stubMethods'[s][id].arr]) =
               Range(arrays[stubMethods[s][id].arr])
         /\ Range(arrays'[stubMethods'[s][id].arr]) =
               Range(stubMethods[s][id].declared)]_vars

\* C18: between operations this._inCall is false on every socket.
C18_GuardClearBetweenOperations == \A s \in Sockets : ~inCall[s]

\* the ids of the reference tokens in a wire value and in a message
RECURSIVE RefIds(_)
RefIds(v) ==
    CASE v.k = "ref" -> {v.id}
      [] v.k = "arr" -> UNION {RefIds(v.items[i]) : i \in 1..Len(v.items)}
      [] OTHER -> {}
RefIdsIn(msg) ==
    CASE msg.control = "call" ->
            UNION {RefIds(msg.params[i]) : i \in 1..Len(msg.params)}
      [] msg.control = "reply" -> RefIds(msg.reply)
      [] OTHER -> {}

\* C19: whenever a socket writes a call or reply message with a reference
\* token for an object it exports, the new-object message of that id has
\* been written before: in an earlier step, or earlier in the same step.
C19_AnnouncedBeforeReferenced ==
    [][\A s \in Sockets :
         LET w == Written(s)
         IN \A i \in 1..Len(w) :
               \A id \in RefIdsIn(w[i]) \cap DOMAIN knownStubIds'[s] :
                  \/ id \in announced[s]
                  \/ \E j \in 1..(i - 1) :
                        w[j].control = "new-object" /\ w[j].obj = id]_vars

\* C20: when the next message a socket takes is a call or a reply, every
\* reference token in it whose object the writer still exports resolves on
\* the receiving socket: its id is in knownProxies or in knownStubIds there.
C20_ReceivedReferencesResolve ==
    \A s \in Sockets :
       (chan[Peer(s)] # <<>>
          /\ Head(chan[Peer(s)]).control \in {"call", "reply"}) =>
          \A id \in RefIdsIn(Head(chan[Peer(s)])) :
             id \in DOMAIN knownStubIds[Peer(s)] =>
                /\ id \in knownProxies[s] \cup DOMAIN knownStubIds[s]
                /\ UnmarshalArgument(s, knownStubIds[s], knownProxies[s],
                                     Ref(id)) # Thrown

====
